---- MODULE Spec2Model ----
(***************************************************************************)
(* CodeBuddy: the agents of src/codebuddy.py and the Orchestrator that     *)
(* runs them in sequence over a repository on disk.                        *)
(*                                                                         *)
(* A source file on disk is a record                                       *)
(*   readable : read_file (Path.read_text, utf-8) returns instead of       *)
(*              raising (undecodable bytes, a directory named x.py, ...)   *)
(*   text     : its text, a sequence of one-character strings              *)
(*   parses   : ast.parse / compile accept the text                        *)
(*   tree     : the syntax tree ast.parse returns, as a sequence of nodes  *)
(*              [kind, parent, lines]; node 0 is the Module, the children  *)
(*              of a node are the nodes naming it as parent, in index      *)
(*              order; lines is len(get_source_segment(..).split("\n"))    *)
(* Paths are 1..n in discovery order; 0 stands for Python's None.          *)
(***************************************************************************)
EXTENDS Integers, Sequences, FiniteSets, TLC

VARIABLES pc, raised, trace, fs, orig, hasTests, files, deps, issues,
          before, plan, changes, ai, after, readme, report

vars == <<pc, raised, trace, fs, orig, hasTests, files, deps, issues,
          before, plan, changes, ai, after, readme, report>>

\* ---------------------------------------------------------------- bounds
MaxFiles == 2
MaxChunks == 2
MaxNodes == 3

\* ------------------------------------------------------------- constants
Threshold == 120
None == 0

EvalTok == <<"e","v","a","l","(">>
SafeTok == <<"a","s","t",".","l","i","t","e","r","a","l","_","e","v","a","l","(">>
Note == <<"\n","#"," ","T","O","D","O",":"," ","R","e","f","a","c","t","o","r"," ",
          "l","o","n","g"," ","f","u","n","c","t","i","o","n",".","\n">>

Order == <<"INVENTORY", "DEPENDENCIES", "DEFECTS", "TEST_BEFORE", "PLAN",
           "APPLY", "DOCS", "TEST_AFTER", "REPORT", "DONE">>

\* ------------------------------------------------------------ text model
\* `tok in s` of Python: tok occurs in s as a contiguous substring
Contains(s, tok) ==
  \E i \in 1..(Len(s) - Len(tok) + 1) : SubSeq(s, i, i + Len(tok) - 1) = tok

\* number of positions of s at which tok occurs
Count(s, tok) ==
  Cardinality({i \in 1..(Len(s) - Len(tok) + 1) : SubSeq(s, i, i + Len(tok) - 1) = tok})

\* str.replace(old, new): left to right, non-overlapping, every occurrence
RECURSIVE Replace(_, _, _)
Replace(s, old, new) ==
  IF Len(s) < Len(old) THEN s
  ELSE IF SubSeq(s, 1, Len(old)) = old
       THEN new \o Replace(SubSeq(s, Len(old) + 1, Len(s)), old, new)
       ELSE <<Head(s)>> \o Replace(Tail(s), old, new)

\* ------------------------------------------------------------ tree model
KindOf(tree, n) == IF n = 0 THEN "Module" ELSE tree[n].kind

\* ast.iter_child_nodes
Children(tree, p) ==
  SelectSeq([i \in 1..Len(tree) |-> i], LAMBDA i : tree[i].parent = p)

\* ast.walk: todo = deque([node]); popleft; todo.extend(children); yield
RECURSIVE WalkQueue(_, _)
WalkQueue(tree, todo) ==
  IF todo = <<>> THEN <<>>
  ELSE <<Head(todo)>> \o WalkQueue(tree, Tail(todo) \o Children(tree, Head(todo)))

RECURSIVE PreOrderFrom(_, _)
PreOrderFrom(tree, todo) ==
  IF todo = <<>> THEN <<>>
  ELSE <<Head(todo)>> \o PreOrderFrom(tree, Children(tree, Head(todo)) \o Tail(todo))

WalkPreOrder(tree) == PreOrderFrom(tree, <<0>>)

Walk(tree) == WalkQueue(tree, <<0>>)

\* ---------------------------------------------------------------- inputs
Chunks == {EvalTok, <<"a","s","t",".","l","i","t","e","r","a","l","_">>, <<"x">>}

\* the texts made of at most k chunks
RECURSIVE TextsOf(_)
TextsOf(k) ==
  IF k = 0 THEN {<<>>}
  ELSE LET S == TextsOf(k - 1) IN S \cup {t \o c : t \in S, c \in Chunks}

FunctionKinds == {"FunctionDef", "AsyncFunctionDef"}

\* the segment of a def has about Threshold lines, that of an async def is long
NodeShapes ==
  {[kind |-> "FunctionDef", lines |-> l] : l \in {Threshold, Threshold + 1, Threshold + 2}}
  \cup {[kind |-> "AsyncFunctionDef", lines |-> Threshold + 1],
        [kind |-> "Import", lines |-> 1], [kind |-> "Other", lines |-> 1]}

\* a function's segment lies inside the segment of every enclosing function
RECURSIVE FitsInside(_, _, _)
FitsInside(t, p, o) ==
  \/ p = 0
  \/ /\ t[p].kind # "Import"
     /\ (t[p].kind \in FunctionKinds /\ o.kind \in FunctionKinds) => t[p].lines > o.lines
     /\ FitsInside(t, t[p].parent, o)

\* the trees of exactly n nodes below the Module; an import has no children
RECURSIVE TreesOfLen(_)
TreesOfLen(n) ==
  IF n = 0 THEN {<<>>}
  ELSE UNION {{Append(t[1], [kind |-> t[2].kind, lines |-> t[2].lines, parent |-> p]) :
                 p \in {q \in 0..(n - 1) : FitsInside(t[1], q, t[2])}} :
              t \in TreesOfLen(n - 1) \X NodeShapes}

TreesOf(k) == UNION {TreesOfLen(n) : n \in 0..k}

Unreadable == [readable |-> FALSE, text |-> <<>>, parses |-> FALSE, tree |-> <<>>]

FileContents(texts, trees) ==
  {Unreadable}
  \cup {[readable |-> TRUE, text |-> t, parses |-> FALSE, tree |-> <<>>] : t \in texts}
  \cup {[readable |-> TRUE, text |-> t, parses |-> TRUE, tree |-> a] :
          t \in texts, a \in trees}

\* repositories: up to MaxFiles small files, or one file with a long text,
\* or one file with a large tree
Repos ==
  UNION {[1..n -> FileContents({<<>>, EvalTok}, TreesOf(1))] : n \in 0..MaxFiles}
  \cup [1..1 -> FileContents(TextsOf(MaxChunks), TreesOf(1))]
  \cup [1..1 -> FileContents({<<>>, EvalTok}, TreesOf(MaxNodes))]

\* ---------------------------------------------------------------- agents
\* list_source_files: the .py files under the root, in discovery order
ListSourceFiles(disk) == [i \in 1..Cardinality(DOMAIN disk) |-> i]

\* sorted(set(imports)): every import node of the model imports "os"
ImportsOf(tree) ==
  IF \E n \in 1..Len(tree) : tree[n].kind = "Import" THEN <<"os">> ELSE <<>>

\* DependencyMapperAgent.run, one file: any failure gives []
DepsOfFile(c) ==
  IF c.readable /\ c.parses THEN ImportsOf(c.tree) ELSE <<>>

\* isinstance(node, ast.FunctionDef)
IsFunctionDef(tree, n) == KindOf(tree, n) = "FunctionDef"

\* StaticAnalyzerAgent.run, the complexity check of one parsed file
ComplexityIssues(tree) ==
  LET long == SelectSeq(Walk(tree),
                 LAMBDA n : IsFunctionDef(tree, n) /\ tree[n].lines > Threshold)
  IN [j \in 1..Len(long) |-> [type |-> "complexity", fn |-> long[j]]]

\* one security defect for each occurrence of the token
SecurityIssues_PerOccurrence(text) ==
  [j \in 1..Count(text, EvalTok) |-> [type |-> "security", fn |-> 0]]

\* StaticAnalyzerAgent.run, the security check of one file
SecurityIssues(text) ==
  IF Contains(text, EvalTok) THEN <<[type |-> "security", fn |-> 0]>> ELSE <<>>

\* StaticAnalyzerAgent.run, one readable file
FileIssues(c) ==
  SecurityIssues(c.text) \o (IF c.parses THEN ComplexityIssues(c.tree) ELSE <<>>)

\* FixPlannerAgent.run, the actions of one file's issues
RECURSIVE ActionsOf(_, _)
ActionsOf(f, iss) ==
  IF iss = <<>> THEN <<>>
  ELSE (IF Head(iss).type = "security"
          THEN <<[file |-> f, action |-> "fix_eval"]>>
        ELSE IF Head(iss).type = "complexity"
          THEN <<[file |-> f, action |-> "refactor_note"]>>
        ELSE <<>>)
       \o ActionsOf(f, Tail(iss))

RECURSIVE DefectActions(_)
DefectActions(rep) ==
  IF rep = <<>> THEN <<>>
  ELSE ActionsOf(Head(rep).file, Head(rep).issues) \o DefectActions(Tail(rep))

\* the test-failure action put before the defects' actions
PlanOf_InvestigateFirst(rep, tests) ==
  (IF ~tests.success
     THEN <<[file |-> None, action |-> "investigate_test_failure"]>>
   ELSE <<>>)
  \o DefectActions(rep)

\* FixPlannerAgent.run
PlanOf(rep, tests) ==
  DefectActions(rep)
  \o (IF ~tests.success
        THEN <<[file |-> None, action |-> "investigate_test_failure"]>>
      ELSE <<>>)

\* BugFixerAgent.run: txt.replace("eval(", "ast.literal_eval(")
FixEval(txt) == Replace(txt, EvalTok, SafeTok)

\* BugFixerAgent.run: txt += "\n# TODO: Refactor long function.\n"
RefactorNote(txt) == txt \o Note

\* TestRunnerAgent.run without a tests directory: the files compile() rejects
CompileErrors(disk) ==
  SelectSeq(ListSourceFiles(disk),
            LAMBDA f : ~(disk[f].readable /\ disk[f].parses))

\* TestRunnerAgent.run: pytest's exit code when tests/ exists, else compile()
TestResults(disk, tests) ==
  IF tests
    THEN {[kind |-> "pytest", success |-> (code = 0), errors |-> <<>>] : code \in {0, 1}}
  ELSE {[kind |-> "compile", success |-> (CompileErrors(disk) = <<>>),
         errors |-> CompileErrors(disk)]}

\* ---------------------------------------------------------- orchestrator
NoResult == [kind |-> "none", success |-> FALSE, errors |-> <<>>]
Absent == [written |-> FALSE, files |-> <<>>, deps |-> <<>>]
NoReport == [written |-> FALSE, plan |-> <<>>, changes |-> <<>>,
             tests_before |-> NoResult, tests_after |-> NoResult]

Init ==
  /\ fs \in Repos
  /\ orig = fs
  /\ hasTests \in BOOLEAN
  /\ pc = "INVENTORY"
  /\ raised = FALSE
  /\ trace = <<"INVENTORY">>
  /\ files = <<>>
  /\ deps = <<>>
  /\ issues = <<>>
  /\ before = NoResult
  /\ plan = <<>>
  /\ changes = <<>>
  /\ ai = 1
  /\ after = NoResult
  /\ readme = Absent
  /\ report = NoReport

\* control passes to the next statement of Orchestrator.run
Goto(stage) ==
  /\ pc' = stage
  /\ trace' = Append(trace, stage)

\* files = self.reader.run(self.repo_path)["files"]
Inventory ==
  /\ pc = "INVENTORY" /\ ~raised
  /\ files' = ListSourceFiles(fs)
  /\ Goto("DEPENDENCIES")
  /\ UNCHANGED <<raised, fs, orig, hasTests, deps, issues, before, plan,
                 changes, ai, after, readme, report>>

\* deps = self.deps.run(files)["dependencies"]
Dependencies ==
  /\ pc = "DEPENDENCIES" /\ ~raised
  /\ deps' = [i \in 1..Len(files) |-> [file |-> files[i], imports |-> DepsOfFile(fs[files[i]])]]
  /\ Goto("DEFECTS")
  /\ UNCHANGED <<raised, fs, orig, hasTests, files, issues, before, plan,
                 changes, ai, after, readme, report>>

\* issues = self.static.run(files)["issues"]; read_file is outside the try
Defects ==
  /\ pc = "DEFECTS" /\ ~raised
  /\ IF \E i \in 1..Len(files) : ~fs[files[i]].readable
       THEN /\ raised' = TRUE
            /\ UNCHANGED <<pc, trace, issues>>
     ELSE /\ issues' = [i \in 1..Len(files) |->
                          [file |-> files[i], issues |-> FileIssues(fs[files[i]])]]
          /\ Goto("TEST_BEFORE")
          /\ UNCHANGED raised
  /\ UNCHANGED <<fs, orig, hasTests, files, deps, before, plan,
                 changes, ai, after, readme, report>>

\* before = self.tests.run(self.repo_path)
TestBefore ==
  /\ pc = "TEST_BEFORE" /\ ~raised
  /\ before' \in TestResults(fs, hasTests)
  /\ Goto("PLAN")
  /\ UNCHANGED <<raised, fs, orig, hasTests, files, deps, issues, plan,
                 changes, ai, after, readme, report>>

\* plan = self.fixplan.run(issues, before)["plan"]
Plan ==
  /\ pc = "PLAN" /\ ~raised
  /\ plan' = PlanOf(issues, before)
  /\ ai' = 1
  /\ Goto("APPLY")
  /\ UNCHANGED <<raised, fs, orig, hasTests, files, deps, issues, before,
                 changes, after, readme, report>>

\* the syntax of a rewritten file: replacing the token can break a file that
\* parsed (def eval(x) becomes def ast.literal_eval(x))
ParsesAfter(c, newText) ==
  IF newText = c.text THEN {c.parses}
  ELSE IF c.parses THEN BOOLEAN ELSE {FALSE}

\* an iteration that records a change for every item, file or not
BugFixerItem_RecordsEveryItem ==
  /\ pc = "APPLY" /\ ~raised
  /\ ai <= Len(plan)
  /\ LET f == plan[ai].file
         action == plan[ai].action
     IN IF f # None /\ action = "fix_eval"
          THEN \E p \in ParsesAfter(fs[f], FixEval(fs[f].text)) :
                 /\ fs' = [fs EXCEPT ![f] = [readable |-> TRUE,
                                             text |-> FixEval(fs[f].text),
                                             parses |-> p,
                                             tree |-> IF p THEN fs[f].tree ELSE <<>>]]
                 /\ changes' = Append(changes, [file |-> f, update |-> "eval() replaced"])
        ELSE IF f # None /\ action = "refactor_note"
          THEN /\ fs' = [fs EXCEPT ![f].text = RefactorNote(fs[f].text)]
               /\ changes' = Append(changes, [file |-> f, update |-> "refactor note added"])
        ELSE /\ changes' = Append(changes, [file |-> f, update |-> "none"])
             /\ UNCHANGED fs
  /\ ai' = ai + 1
  /\ UNCHANGED <<pc, trace, raised, orig, hasTests, files, deps, issues,
                 before, plan, after, readme, report>>

\* BugFixerAgent.run, one iteration of `for item in plan`
BugFixerItem ==
  /\ pc = "APPLY" /\ ~raised
  /\ ai <= Len(plan)
  /\ LET f == plan[ai].file
         action == plan[ai].action
     IN IF f # None /\ action = "fix_eval"
          THEN \E p \in ParsesAfter(fs[f], FixEval(fs[f].text)) :
                 /\ fs' = [fs EXCEPT ![f] = [readable |-> TRUE,
                                             text |-> FixEval(fs[f].text),
                                             parses |-> p,
                                             tree |-> IF p THEN fs[f].tree ELSE <<>>]]
                 /\ changes' = Append(changes, [file |-> f, update |-> "eval() replaced"])
        ELSE IF f # None /\ action = "refactor_note"
          THEN /\ fs' = [fs EXCEPT ![f].text = RefactorNote(fs[f].text)]
               /\ changes' = Append(changes, [file |-> f, update |-> "refactor note added"])
        ELSE UNCHANGED <<fs, changes>>
  /\ ai' = ai + 1
  /\ UNCHANGED <<pc, trace, raised, orig, hasTests, files, deps, issues,
                 before, plan, after, readme, report>>

\* a return that skips the DOCS stage
BugFixerReturn_SkipDocs ==
  /\ pc = "APPLY" /\ ~raised
  /\ ai > Len(plan)
  /\ Goto("TEST_AFTER")
  /\ UNCHANGED <<raised, fs, orig, hasTests, files, deps, issues, before,
                 plan, changes, ai, after, readme, report>>

\* changes = self.fixer.run(self.repo_path, plan)["changes"]
BugFixerReturn ==
  /\ pc = "APPLY" /\ ~raised
  /\ ai > Len(plan)
  /\ Goto("DOCS")
  /\ UNCHANGED <<raised, fs, orig, hasTests, files, deps, issues, before,
                 plan, changes, ai, after, readme, report>>

\* sorted({d for arr in deps.values() for d in arr})
RECURSIVE UniqueDeps(_)
UniqueDeps(d) ==
  IF d = <<>> THEN <<>>
  ELSE IF Head(d).imports # <<>> THEN Head(d).imports ELSE UniqueDeps(Tail(d))

\* a documentation stage that also appends to every source file
DocWriter_TouchesSources ==
  /\ pc = "DOCS" /\ ~raised
  /\ readme' = [written |-> TRUE, files |-> ListSourceFiles(fs), deps |-> UniqueDeps(deps)]
  /\ fs' = [f \in DOMAIN fs |-> [fs[f] EXCEPT !.text = RefactorNote(@)]]
  /\ Goto("TEST_AFTER")
  /\ UNCHANGED <<raised, orig, hasTests, files, deps, issues, before,
                 plan, changes, ai, after, report>>

\* docs = self.docs.run(self.repo_path, deps): writes README_CODEBUDDY.md
DocWriter ==
  /\ pc = "DOCS" /\ ~raised
  /\ readme' = [written |-> TRUE, files |-> ListSourceFiles(fs), deps |-> UniqueDeps(deps)]
  /\ Goto("TEST_AFTER")
  /\ UNCHANGED <<raised, fs, orig, hasTests, files, deps, issues, before,
                 plan, changes, ai, after, report>>

\* after = self.tests.run(self.repo_path)
TestAfter ==
  /\ pc = "TEST_AFTER" /\ ~raised
  /\ after' \in TestResults(fs, hasTests)
  /\ Goto("REPORT")
  /\ UNCHANGED <<raised, fs, orig, hasTests, files, deps, issues, before,
                 plan, changes, ai, readme, report>>

\* report = self.reporter.run(...): writes CODEBUDDY_REPORT.json
Reporter ==
  /\ pc = "REPORT" /\ ~raised
  /\ report' = [written |-> TRUE, plan |-> plan, changes |-> changes,
                tests_before |-> before, tests_after |-> after]
  /\ Goto("DONE")
  /\ UNCHANGED <<raised, fs, orig, hasTests, files, deps, issues, before,
                 plan, changes, ai, after, readme>>

Next ==
  \/ Inventory
  \/ Dependencies
  \/ Defects
  \/ TestBefore
  \/ Plan
  \/ BugFixerItem
  \/ BugFixerReturn
  \/ DocWriter
  \/ TestAfter
  \/ Reporter

Spec == Init /\ [][Next]_vars

\* one thread runs Orchestrator.run to its end: every enabled step is taken
FairSpec == Init /\ [][Next]_vars /\ WF_vars(Next)

\* ================================================================ claims
Entered(stage) == \E i \in 1..Len(trace) : trace[i] = stage

\* the step of BugFixerAgent.run that handles a fix_eval item
FixEvalStep ==
  /\ pc = "APPLY" /\ ai <= Len(plan) /\ ai' = ai + 1
  /\ plan[ai].action = "fix_eval"

\* C1: applying fix_eval to a file with N >= 1 occurrences of eval( leaves
\* no occurrence of eval( (by the detector's substring test) and N
\* occurrences of ast.literal_eval(.
C1_FixEvalRemovesToken ==
  [][FixEvalStep =>
       LET f == plan[ai].file
           N == Count(fs[f].text, EvalTok)
       IN N >= 1 => /\ ~Contains(fs'[f].text, EvalTok)
                    /\ Count(fs'[f].text, SafeTok) = N]_vars

\* C2: fix_eval is idempotent: applying it to the file a first application
\* produced leaves the text unchanged.
C2_FixEvalIdempotent ==
  [][FixEvalStep =>
       LET f == plan[ai].file
       IN FixEval(fs'[f].text) = fs'[f].text]_vars

\* the number of defects of the files before the i-th of the report
RECURSIVE Offset(_, _)
Offset(rep, i) ==
  IF i <= 1 THEN 0 ELSE Offset(rep, i - 1) + Len(rep[i - 1].issues)

TotalDefects(rep) == Offset(rep, Len(rep) + 1)

ActionFor(type) == IF type = "security" THEN "fix_eval" ELSE "refactor_note"

\* C3: the plan holds one action per defect, in file order and then defect
\* order (security -> fix_eval, complexity -> refactor_note, with the
\* defect's file), followed by one investigate_test_failure with no file
\* exactly when the tests failed; its length is defects + (1 if failed).
C3_PlanShape ==
  Entered("APPLY") =>
    /\ Len(plan) = TotalDefects(issues) + (IF before.success THEN 0 ELSE 1)
    /\ \A i \in 1..Len(issues) : \A j \in 1..Len(issues[i].issues) :
         plan[Offset(issues, i) + j] =
           [file |-> issues[i].file, action |-> ActionFor(issues[i].issues[j].type)]
    /\ \A k \in 1..Len(plan) :
         plan[k].action = "investigate_test_failure" =>
           /\ k = Len(plan)
           /\ plan[k].file = None
           /\ ~before.success
    /\ ~before.success => Len(plan) >= 1 /\ plan[Len(plan)].action = "investigate_test_failure"

C3_Witness ==
  /\ Entered("APPLY")
  /\ Len(plan) >= 4
  /\ plan[1].file # plan[3].file
  /\ plan[1].action = "fix_eval" /\ plan[2].action = "refactor_note"
  /\ plan[Len(plan)].action = "investigate_test_failure"

\* C4: the stages are entered in the fixed order, each once, none skipped
\* and none re-entered; a finished run has entered all ten.
C4_LinearOrder ==
  /\ Len(trace) <= Len(Order)
  /\ trace = SubSeq(Order, 1, Len(trace))
  /\ pc = trace[Len(trace)]
  /\ pc = "DONE" => trace = Order

C4_Witness == pc = "DONE" /\ trace = Order /\ Len(plan) >= 2

\* C5: every run reaches REPORT and persists a report, also when single
\* files fail analysis or the tests fail.
C5_AlwaysReports == <>(report.written)

CountType(iss, type) ==
  Cardinality({k \in 1..Len(iss) : iss[k].type = type})

\* C6: a file whose text contains eval( has exactly one security defect,
\* however many occurrences and whether or not it parses; a file without
\* the token has none; a file that does not parse has no complexity defect
\* and raises nothing.
C6_OneSecurityDefect ==
  /\ raised => \E f \in DOMAIN orig : ~orig[f].readable
  /\ Entered("TEST_BEFORE") =>
       /\ Len(issues) = Len(files)
       /\ \A i \in 1..Len(files) :
            LET c == orig[files[i]]
                d == issues[i].issues
            IN /\ issues[i].file = files[i]
               /\ CountType(d, "security") = (IF Contains(c.text, EvalTok) THEN 1 ELSE 0)
               /\ ~c.parses => CountType(d, "complexity") = 0

C6_Witness ==
  /\ Entered("TEST_BEFORE")
  /\ \E i \in 1..Len(files) :
       /\ Count(orig[files[i]].text, EvalTok) >= 2
       /\ ~orig[files[i]].parses
       /\ issues[i].issues = <<[type |-> "security", fn |-> 0]>>

\* C7: every function definition of a parsed file, of any kind and at any
\* depth, has exactly one complexity defect if it spans more than 120
\* lines and none if it spans 120 or fewer.
C7_EveryLongFunction ==
  Entered("TEST_BEFORE") =>
    \A i \in 1..Len(files) :
      LET c == orig[files[i]]
          d == issues[i].issues
      IN c.parses =>
           \A n \in 1..Len(c.tree) :
             c.tree[n].kind \in FunctionKinds =>
               Cardinality({k \in 1..Len(d) : d[k] = [type |-> "complexity", fn |-> n]})
                 = (IF c.tree[n].lines > Threshold THEN 1 ELSE 0)

\* the items of the plan BugFixerAgent.run has handled so far
Handled == SubSeq(plan, 1, IF pc = "APPLY" THEN ai - 1 ELSE Len(plan))

Targeted(items) ==
  SelectSeq(items, LAMBDA it : it.file # None /\ it.action \in {"fix_eval", "refactor_note"})

UpdateFor(action) ==
  IF action = "fix_eval" THEN "eval() replaced" ELSE "refactor note added"

\* C8: the change records are one per file-targeted action (fix_eval,
\* refactor_note), in plan order, with the action's file; an
\* investigate_test_failure item adds no record and changes no file; when
\* pytest ran and failed, that item is the plan's last and has no file.
C8_ChangeRecords ==
  Entered("APPLY") =>
    LET done == Targeted(Handled)
    IN /\ Len(changes) = Len(done)
       /\ \A k \in 1..Len(done) :
            changes[k] = [file |-> done[k].file, update |-> UpdateFor(done[k].action)]
       /\ \A f \in DOMAIN fs :
            (\A k \in 1..Len(done) : done[k].file # f) => fs[f] = orig[f]
       /\ (before.kind = "pytest" /\ ~before.success) =>
            plan[Len(plan)] = [file |-> None, action |-> "investigate_test_failure"]

C8_Witness ==
  /\ pc = "DOCS"
  /\ before.kind = "pytest" /\ ~before.success
  /\ Len(plan) >= 3
  /\ Len(changes) = Len(plan) - 1
  /\ \E f \in DOMAIN fs : fs[f] = orig[f]

\* C9: only the APPLY stage writes source files: they are unchanged until
\* APPLY starts and after it returns, so the defects and the first test
\* result come from the original contents and the second test result from
\* the contents APPLY left.
C9_SoleWriter ==
  /\ [][fs' # fs => (pc = "APPLY" /\ pc' = "APPLY")]_vars
  /\ [](~Entered("APPLY") => fs = orig)
  /\ [](Entered("TEST_BEFORE") =>
          issues = [i \in 1..Len(files) |->
                      [file |-> files[i], issues |-> FileIssues(orig[files[i]])]])
  /\ [](Entered("PLAN") => before \in TestResults(orig, hasTests))
  /\ [](Entered("REPORT") => after \in TestResults(fs, hasTests))

C9_Witness ==
  /\ pc = "DONE"
  /\ fs # orig
  /\ ~hasTests /\ before.success /\ ~after.success

RECURSIVE Depth(_, _)
Depth(tree, n) == IF n = 0 THEN 0 ELSE 1 + Depth(tree, tree[n].parent)

\* a comes before b in level order: nearer the root, or at the same depth
\* with an earlier parent, or an earlier child of the same parent
RECURSIVE LevelBefore(_, _, _)
LevelBefore(tree, a, b) ==
  \/ Depth(tree, a) < Depth(tree, b)
  \/ /\ Depth(tree, a) = Depth(tree, b)
     /\ a # b
     /\ IF tree[a].parent = tree[b].parent THEN a < b
        ELSE LevelBefore(tree, tree[a].parent, tree[b].parent)

PosIn(seq, x) == CHOOSE i \in 1..Len(seq) : seq[i] = x

====
